---- MODULE Spec2Model ----
(***************************************************************************)
(* Model of src/src/hash.rs: Hash<T>, a linear-hashing table from string   *)
(* keys to values.  A key is the sequence of its UTF-8 bytes, a bucket is  *)
(* a sequence of NameVal records, Option<T> is a sequence of length <= 1   *)
(* (<<>> is None, <<v>> is Some(v)).  A Hash value is the record           *)
(* [table, bits, split_bucket]; the methods are operators over it.         *)
(***************************************************************************)
EXTENDS Integers, Sequences, FiniteSets, TLC

\* ----------------------------------------------------------------------
\* Program constants
\* ----------------------------------------------------------------------
NHASH == 32
MULTIPLIER == 31
\* Hash::new sets bits to 5, log_2(NHASH)
InitBits == 5

\* ----------------------------------------------------------------------
\* Bounds of the model
\* ----------------------------------------------------------------------
\* number of colliding keys the caller of Fill upserts
MaxFill == 92
\* number of colliding keys upserted from which calls on the probe key
\* are made
ProbeFrom == 60
\* number of colliding keys the caller of the stepwise specification
\* upserts
StepFill == 68
\* number of activations of split the call stack has room for
MaxDepth == 6

\* ----------------------------------------------------------------------
\* usize arithmetic.  A usize is 64 bits wide; it is kept as four 16-bit
\* limbs, least significant first, so that wrapping_mul / wrapping_add
\* wrap at 2^64 exactly as in the program.
\* ----------------------------------------------------------------------
Limb == 2^16

RECURSIVE Pow2(_)
\* 1 << n
Pow2(n) == IF n = 0 THEN 1 ELSE 2 * Pow2(n - 1)

\* h.wrapping_mul(MULTIPLIER).wrapping_add(p) on the limbs of h
WrapMulAdd(h, p) ==
    LET t0 == h[1] * MULTIPLIER + p
        t1 == h[2] * MULTIPLIER + (t0 \div Limb)
        t2 == h[3] * MULTIPLIER + (t1 \div Limb)
        t3 == h[4] * MULTIPLIER + (t2 \div Limb)
    IN  << t0 % Limb, t1 % Limb, t2 % Limb, t3 % Limb >>

RECURSIVE RollFrom(_, _, _)
\* the loop `for p in name.bytes()` of Hash::hash, from byte i on; g is
\* the value of h after byte i
RollFrom(h, name, i) ==
    IF i > Len(name) THEN h
    ELSE CHOOSE r \in { RollFrom(g, name, i + 1) :
                           g \in { WrapMulAdd(h, name[i]) } } : TRUE

\* the rolling hash of a key: the value of h after the loop
RollingHash(name) == RollFrom(<< 0, 0, 0, 0 >>, name, 1)

\* h & ((1 << bits) - 1), for bits < 31
MaskLow(h, bits) ==
    IF bits <= 16 THEN h[1] % Pow2(bits)
    ELSE h[1] + Limb * (h[2] % Pow2(bits - 16))

\* m ^ (1 << b): flips bit b of m
XorBit(m, b) ==
    IF (m \div Pow2(b)) % 2 = 1 THEN m - Pow2(b) ELSE m + Pow2(b)

\* ----------------------------------------------------------------------
\* Hash<T>
\* ----------------------------------------------------------------------
\* the loop of Hash::new: n pushes of Vec::new()
EmptyBuckets(n) == [ i \in 1..n |-> << >> ]

\* Hash::new
new == [ table |-> EmptyBuckets(NHASH), bits |-> InitBits, split_bucket |-> 0 ]

\* Hash::len: the number of buckets
len(self) == Len(self.table)

\* Address with the fold flipping bit `bits` instead of bit `bits - 1`
Address_WrongBit(self, m) ==
    IF m < len(self) THEN m ELSE XorBit(m, self.bits)

\* the tail of Hash::hash: the bucket index chosen for the masked hash m
Address(self, m) ==
    IF m < len(self) THEN m ELSE XorBit(m, self.bits - 1)

\* Hash::hash
hash(self, name) == Address(self, MaskLow(RollingHash(name), self.bits))

\* the bucket at 0-based index i (self.table[i])
Bucket(self, i) == self.table[i + 1]

\* the scan `for entry in entries.iter()` for a matching name: the
\* (1-based) index of the first entry of the bucket whose name is `name`,
\* 0 if there is none
FindFrom(entries, name, from) ==
    LET hits == { i \in from..Len(entries) : entries[i].name = name }
    IN  IF hits = {} THEN 0
        ELSE CHOOSE i \in hits : \A j \in hits : i <= j

\* Hash::lookup, where the bucket index h is inside the table
lookup(self, name) ==
    LET entries == Bucket(self, hash(self, name))
        i == FindFrom(entries, name, 1)
    IN  IF i = 0 THEN << >> ELSE << entries[i].value >>

\* an indexing self.table[hash(name)] outside the table panics
IndexPanics(self, name) == hash(self, name) >= len(self)

\* AdvanceSplit comparing the length with (1 << (bits + 1)) - 1
AdvanceSplit_WideRound(self) ==
    IF len(self) > Pow2(self.bits + 1) - 1
    THEN [ self EXCEPT !.bits = self.bits + 1, !.split_bucket = 0 ]
    ELSE [ self EXCEPT !.split_bucket = self.split_bucket + 1 ]

\* AdvanceSplit with bits left as it is
AdvanceSplit_NoBump(self) ==
    IF len(self) > Pow2(self.bits) - 1
    THEN [ self EXCEPT !.split_bucket = 0 ]
    ELSE [ self EXCEPT !.split_bucket = self.split_bucket + 1 ]

\* the bits / split_bucket update of Hash::split, for a table that already
\* holds the appended bucket
AdvanceSplit(self) ==
    IF len(self) > Pow2(self.bits) - 1
    THEN [ self EXCEPT !.bits = self.bits + 1, !.split_bucket = 0 ]
    ELSE [ self EXCEPT !.split_bucket = self.split_bucket + 1 ]

\* TakeAndPush with the push made twice
TakeAndPush_TwoPush(self) ==
    [ self EXCEPT !.table =
        Append(Append([ self.table EXCEPT ![self.split_bucket + 1] = << >> ],
                      << >>), << >>) ]

\* the first three statements of Hash::split: take and clear the bucket at
\* split_bucket and push an empty bucket
TakeAndPush(self) ==
    [ self EXCEPT !.table =
        Append([ self.table EXCEPT ![self.split_bucket + 1] = << >> ], << >>) ]

\* every masked hash m of the current width is given a bucket of the table
AddressesInRange(self) ==
    \A m \in 0..(Pow2(self.bits) - 1) :
        Address(self, m) >= 0 /\ Address(self, m) < len(self)

\* SplitDue with the test `entry_count > (1 << self.bits)`
SplitDue_Late(self, entry_count) == entry_count > Pow2(self.bits)

\* SplitDue with the test `entry_count + 1 >= (1 << self.bits)`
SplitDue_Early(self, entry_count) == entry_count + 1 >= Pow2(self.bits)

\* the test `entry_count + 1 > (1 << self.bits)` of Hash::upsert
SplitDue(self, entry_count) == entry_count + 1 > Pow2(self.bits)

\* the positions << bucket, index >> of the entries of a table
Positions(t) ==
    UNION { { << b, i >> : i \in 1..Len(t[b]) } : b \in 1..Len(t) }

\* the number of entries of a table
EntryCount(t) == Cardinality(Positions(t))

\* the entries of a table with the number of times each is stored
EntryBag(t) ==
    LET P == Positions(t)
    IN  [ e \in { t[p[1]][p[2]] : p \in P } |->
            Cardinality({ p \in P : t[p[1]][p[2]] = e }) ]

\* the bucket holds the entry e
Holds(entries, e) == \E j \in 1..Len(entries) : entries[j] = e

\* What one call of split did, for a table `self` at its entry and the
\* outcome r of its re-insertion loop: the index and length of the bucket it
\* took, the number of buckets after its push, bits and split_bucket before
\* and after its update, whether every taken entry ended in the taken or in
\* the pushed bucket (moved_ok), whether every other bucket it met ended as
\* it was (frame_ok), and by how many entries the table ended smaller
\* (lost).  trigger_bucket and trigger_len are filled in by the upsert that
\* called split.
SplitEvent(self, advanced, r) ==
    LET sb == self.split_bucket
        orig_bucket == Bucket(self, sb)
        post == r.self.table
    IN  [ taken |-> sb,
          taken_len |-> Len(orig_bucket),
          n_after |-> len(advanced),
          bits_before |-> self.bits,
          bits_after |-> advanced.bits,
          sb_after |-> advanced.split_bucket,
          trigger_bucket |-> 0,
          trigger_len |-> 0,
          moved_ok |-> \A i \in 1..Len(orig_bucket) :
                           \/ Holds(post[sb + 1], orig_bucket[i])
                           \/ Holds(post[len(self) + 1], orig_bucket[i]),
          frame_ok |-> \A b \in 1..len(self) :
                           b # sb + 1 => post[b] = self.table[b],
          lost |-> EntryCount(self.table) - EntryCount(post) ]

RECURSIVE upsert(_, _, _), split(_), Reinsert(_, _, _, _)

\* upsert with the split test made on the update path too
upsert_SplitOnUpdate(self, name, value) ==
    IF IndexPanics(self, name)
    THEN [ self |-> self, ret |-> FALSE, panic |-> TRUE, splits |-> 0,
           addr_ok |-> TRUE, log |-> << >>, overflows |-> 0 ]
    ELSE
    LET h == hash(self, name)
        entries == Bucket(self, h)
        entry_count == Len(entries)
        i == FindFrom(entries, name, 1)
        pushed == IF i # 0
                  THEN [ self EXCEPT !.table[h + 1][i].value = value ]
                  ELSE [ self EXCEPT !.table[h + 1] =
                           Append(entries, [ name |-> name, value |-> value ]) ]
        grown == Len(Bucket(pushed, h))
        over == IF i = 0 /\ grown > Pow2(pushed.bits) THEN 1 ELSE 0
    IN  IF grown > Pow2(self.bits)
        THEN LET r == split(pushed)
             IN  [ self |-> r.self, ret |-> i = 0, panic |-> r.panic,
                   splits |-> r.splits, addr_ok |-> r.addr_ok,
                   log |-> IF r.log = << >> THEN << >>
                           ELSE [ r.log EXCEPT
                                    ![1].trigger_bucket = h,
                                    ![1].trigger_len = grown ],
                   overflows |-> over + r.overflows ]
        ELSE [ self |-> pushed, ret |-> i = 0, panic |-> FALSE,
               splits |-> 0, addr_ok |-> TRUE, log |-> << >>,
               overflows |-> over ]

\* Hash::upsert.  The result holds the table after the call, the returned
\* bool, whether the call panicked on an index outside the table, the
\* number of calls of split made before it returned, whether
\* AddressesInRange held each time a split had updated bits / split_bucket
\* and was about to re-insert, the SplitEvent of every call of split (a
\* split before the splits nested in it), and the number of appends that
\* left a bucket with more than 1 << bits entries.
upsert(self, name, value) ==
    IF IndexPanics(self, name)
    THEN [ self |-> self, ret |-> FALSE, panic |-> TRUE, splits |-> 0,
           addr_ok |-> TRUE, log |-> << >>, overflows |-> 0 ]
    ELSE
    LET h == hash(self, name)
        entries == Bucket(self, h)
        entry_count == Len(entries)
        i == FindFrom(entries, name, 1)
    IN  IF i # 0
        THEN [ self |-> [ self EXCEPT !.table[h + 1][i].value = value ],
               ret |-> FALSE, panic |-> FALSE, splits |-> 0,
               addr_ok |-> TRUE, log |-> << >>, overflows |-> 0 ]
        ELSE
        LET pushed == [ self EXCEPT !.table[h + 1] =
                          Append(entries, [ name |-> name, value |-> value ]) ]
            over == IF Len(Bucket(pushed, h)) > Pow2(pushed.bits)
                    THEN 1 ELSE 0
        IN  IF SplitDue(self, entry_count)
            THEN LET r == split(pushed)
                 IN  [ self |-> r.self, ret |-> TRUE, panic |-> r.panic,
                       splits |-> r.splits, addr_ok |-> r.addr_ok,
                       log |-> IF r.log = << >> THEN << >>
                               ELSE [ r.log EXCEPT
                                        ![1].trigger_bucket = h,
                                        ![1].trigger_len = entry_count + 1 ],
                       overflows |-> over + r.overflows ]
            ELSE [ self |-> pushed, ret |-> TRUE, panic |-> FALSE,
                   splits |-> 0, addr_ok |-> TRUE, log |-> << >>,
                   overflows |-> over ]

\* the loop `for entry in orig_bucket.iter()` of Hash::split over the
\* entries lo..hi of the taken bucket, run on the outcome `acc` of the
\* entries before lo (acc.splits counts the calls of split so far).  The
\* entries are upserted one after the other in their order; the range is
\* halved only to keep the evaluation shallow.  A panic ends the loop.
Reinsert(acc, orig_bucket, lo, hi) ==
    IF acc.panic \/ lo > hi THEN acc
    ELSE IF lo = hi
    THEN LET r == upsert(acc.self, orig_bucket[lo].name, orig_bucket[lo].value)
         IN  [ self |-> r.self, panic |-> r.panic,
               splits |-> acc.splits + r.splits,
               addr_ok |-> acc.addr_ok /\ r.addr_ok,
               log |-> acc.log \o r.log,
               overflows |-> acc.overflows + r.overflows ]
    ELSE LET mid == (lo + hi) \div 2
         IN  Reinsert(Reinsert(acc, orig_bucket, lo, mid),
                      orig_bucket, mid + 1, hi)

\* Hash::split
split(self) ==
    IF self.split_bucket >= len(self)
    THEN [ self |-> self, panic |-> TRUE, splits |-> 1, addr_ok |-> TRUE,
           log |-> << >>, overflows |-> 0 ]
    ELSE LET orig_bucket == Bucket(self, self.split_bucket)
             advanced == AdvanceSplit(TakeAndPush(self))
             r == Reinsert([ self |-> advanced, panic |-> FALSE, splits |-> 1,
                             addr_ok |-> AddressesInRange(advanced),
                             log |-> << >>, overflows |-> 0 ],
                           orig_bucket, 1, Len(orig_bucket))
         IN  [ r EXCEPT !.log = << SplitEvent(self, advanced, r) >> \o r.log ]

\* RemoveAt as Vec::swap_remove: the last entry takes the place of entry i
RemoveAt_Swap(entries, i) ==
    [ j \in 1..(Len(entries) - 1) |->
        IF j = i THEN entries[Len(entries)] ELSE entries[j] ]

\* RemoveAt as Vec::pop: the last entry is taken away, whatever i is
RemoveAt_Pop(entries, i) ==
    [ j \in 1..(Len(entries) - 1) |-> entries[j] ]

\* Vec::remove(i): the entries without the one at (1-based) index i, the
\* others in their order
RemoveAt(entries, i) ==
    [ j \in 1..(Len(entries) - 1) |->
        IF j < i THEN entries[j] ELSE entries[j + 1] ]

\* remove with the scan starting at the second entry (for i in 1..len)
remove_SkipFirst(self, name) ==
    IF IndexPanics(self, name)
    THEN [ self |-> self, ret |-> << >>, panic |-> TRUE ]
    ELSE
    LET h == hash(self, name)
        entries == Bucket(self, h)
        i == FindFrom(entries, name, 2)
    IN  IF i = 0
        THEN [ self |-> self, ret |-> << >>, panic |-> FALSE ]
        ELSE [ self |-> [ self EXCEPT !.table[h + 1] = RemoveAt(entries, i) ],
               ret |-> << entries[i].value >>, panic |-> FALSE ]

\* Hash::remove
remove(self, name) ==
    IF IndexPanics(self, name)
    THEN [ self |-> self, ret |-> << >>, panic |-> TRUE ]
    ELSE
    LET h == hash(self, name)
        entries == Bucket(self, h)
        i == FindFrom(entries, name, 1)
    IN  IF i = 0
        THEN [ self |-> self, ret |-> << >>, panic |-> FALSE ]
        ELSE [ self |-> [ self EXCEPT !.table[h + 1] = RemoveAt(entries, i) ],
               ret |-> << entries[i].value >>, panic |-> FALSE ]

\* ----------------------------------------------------------------------
\* Callers.  Keys are byte sequences.
\* ----------------------------------------------------------------------
\* "abc", the key of the test `basics`
KeyAbc == << 97, 98, 99 >>
ProbeKeys == { KeyAbc }
\* the values the test `basics` stores under "abc"
Values == { 64, 256 }

\* Keys chosen by a caller for the argument `name` of upsert.  They are not
\* the decimal strings of test_split: they are keys that Hash::hash cannot
\* tell apart, so that one bucket grows with every upsert.
\* "Aa" and "BB" have the same rolling hash (31*65 + 97 = 31*66 + 66)
BlockAa == << 65, 97 >>
BlockBB == << 66, 66 >>
RECURSIVE FillPrefix(_, _)
\* n blocks, block j spelling bit j of i
FillPrefix(i, n) ==
    IF n = 0 THEN << >>
    ELSE (IF i % 2 = 1 THEN BlockBB ELSE BlockAa) \o FillPrefix(i \div 2, n - 1)

\* the i-th colliding key: 7 blocks and the byte "B"; all these keys have
\* one and the same 64-bit rolling hash
FillKey(i) == FillPrefix(i, 7) \o << 66 >>

\* the colliding keys, by index
FillKeys == [ i \in 0..(MaxFill - 1) |-> FillKey(i) ]

VARIABLES
    table,          \* Hash.table
    bits,           \* Hash.bits
    split_bucket,   \* Hash.split_bucket
    fill,           \* number of colliding keys upserted so far
    last,           \* the last call made by a caller and what it returned
    track,          \* per probe key: what the caller did to it last
    panicked,       \* a call panicked on an index outside the table
    stack           \* the activations of split in progress, outermost
                    \* first: of each, the entries its loop has yet to
                    \* re-insert

vars == << table, bits, split_bucket, fill, last, track, panicked, stack >>

\* the Hash value held by the variables
this == [ table |-> table, bits |-> bits, split_bucket |-> split_bucket ]

\* last: op, name, value are the call (value is << >> for remove); retb
\* is the bool an upsert returned, reto the Option a remove returned;
\* splits, addr_ok, log and overflows are those of the upsert; pos is the
\* index at which remove found its entry (0: none); prev_op, prev_name are
\* the call before.
NoCall == [ op |-> "new", name |-> << >>, value |-> << >>,
            retb |-> FALSE, reto |-> << >>, splits |-> 0, addr_ok |-> TRUE,
            log |-> << >>, overflows |-> 0,
            pos |-> 0, prev_op |-> "new", prev_name |-> << >> ]

Init ==
    /\ table = new.table
    /\ bits = new.bits
    /\ split_bucket = new.split_bucket
    /\ fill = 0
    /\ last = NoCall
    /\ track = [ k \in ProbeKeys |-> [ how |-> "never", val |-> << >> ] ]
    /\ panicked = FALSE
    /\ stack = << >>

\* the variables of the table take the fields of the Hash value s
Store(s) ==
    /\ table' = s.table
    /\ bits' = s.bits
    /\ split_bucket' = s.split_bucket

\* a caller's hashtab.upsert(name, value)
CallUpsert(name, value) ==
    LET r == upsert(this, name, value)
    IN  /\ Store(r.self)
        /\ panicked' = r.panic
        /\ last' = [ op |-> "upsert", name |-> name, value |-> << value >>,
                     retb |-> r.ret, reto |-> << >>, splits |-> r.splits,
                     addr_ok |-> r.addr_ok, log |-> r.log,
                     overflows |-> r.overflows, pos |-> 0,
                     prev_op |-> last.op, prev_name |-> last.name ]

\* a caller's hashtab.upsert(k, i) on the next colliding key, its index
\* as value
Fill ==
    /\ ~panicked
    /\ fill < MaxFill
    /\ CallUpsert(FillKeys[fill], fill)
    /\ fill' = fill + 1
    /\ UNCHANGED << track, stack >>

\* hashtab.upsert(k, v) on a probe key
UpsertOp(k, v) ==
    /\ ~panicked
    /\ fill >= ProbeFrom
    /\ CallUpsert(k, v)
    /\ track' = [ track EXCEPT ![k] = [ how |-> "upserted", val |-> << v >> ] ]
    /\ UNCHANGED << fill, stack >>

\* hashtab.remove(k) on a probe key
RemoveOp(k) ==
    /\ ~panicked
    /\ fill >= ProbeFrom
    /\ LET r == remove(this, k)
       IN  /\ Store(r.self)
           /\ panicked' = r.panic
           /\ last' = [ op |-> "remove", name |-> k, value |-> << >>,
                        retb |-> FALSE, reto |-> r.ret, splits |-> 0,
                        addr_ok |-> TRUE, log |-> << >>, overflows |-> 0,
                        pos |-> IF r.panic THEN 0
                                ELSE FindFrom(Bucket(this, hash(this, k)), k, 1),
                        prev_op |-> last.op, prev_name |-> last.name ]
           /\ track' = [ track EXCEPT ![k] =
                           [ how |-> IF r.ret = << >> THEN "removed_none"
                                     ELSE "removed_some",
                             val |-> << >> ] ]
    /\ UNCHANGED << fill, stack >>

Next ==
    \/ Fill
    \/ \E k \in ProbeKeys, v \in Values : UpsertOp(k, v)
    \/ \E k \in ProbeKeys : RemoveOp(k)

Spec == Init /\ [][Next]_vars

\* ----------------------------------------------------------------------
\* The calls step by step: one activation of upsert at a time, the
\* activations of split on a stack.
\* ----------------------------------------------------------------------
\* the i-th colliding key of the stepwise callers (an argument `name` of
\* upsert chosen by the caller): 7 blocks and the byte "@"; all
\* these keys have one and the same 64-bit rolling hash, and their bucket
\* is bucket 0, the first that split takes
StepKey(i) == FillPrefix(i, 7) \o << 64 >>

\* one activation of Hash::upsert up to its call of split: the table with
\* the value overwritten or the entry pushed, and whether split is called
UpsertBody(self, name, value) ==
    LET h == hash(self, name)
        entries == Bucket(self, h)
        entry_count == Len(entries)
        i == FindFrom(entries, name, 1)
    IN  IF i # 0
        THEN [ self |-> [ self EXCEPT !.table[h + 1][i].value = value ],
               due |-> FALSE ]
        ELSE [ self |-> [ self EXCEPT !.table[h + 1] =
                            Append(entries, [ name |-> name, value |-> value ]) ],
               due |-> SplitDue(self, entry_count) ]

\* Hash::split up to its loop: the bucket taken and cleared, the bucket
\* pushed, bits and split_bucket updated
SplitBegin(self) == AdvanceSplit(TakeAndPush(self))

\* an activation of upsert(name, value) with st the activations of split
\* around it; a call of split enters its loop with the entries of the
\* bucket at split_bucket.  An index outside the table or a full stack
\* aborts the program: the call does not go on.
Run(st, name, value) ==
    /\ ~IndexPanics(this, name)
    /\ \E b \in { UpsertBody(this, name, value) } :
           IF b.due
           THEN /\ b.self.split_bucket < len(b.self)
                /\ Len(st) < MaxDepth
                /\ Store(SplitBegin(b.self))
                /\ stack' = Append(st, Bucket(b.self, b.self.split_bucket))
           ELSE /\ Store(b.self)
                /\ stack' = st
    /\ UNCHANGED << last, track, panicked >>

\* a caller's hashtab.upsert(k, i) on the next colliding key, its index
\* as value
StepCall ==
    /\ stack = << >>
    /\ fill < StepFill
    /\ Run(<< >>, StepKey(fill), fill)
    /\ fill' = fill + 1

\* a caller calls upsert(k, v) on a probe key
StepProbe(k, v) ==
    /\ stack = << >>
    /\ Run(<< >>, k, v)
    /\ UNCHANGED fill

\* one iteration of the loop of the innermost split: upsert the next entry
StepReinsert ==
    /\ stack # << >>
    /\ stack[Len(stack)] # << >>
    /\ LET top == stack[Len(stack)]
       IN  Run([ stack EXCEPT ![Len(stack)] = Tail(top) ],
               Head(top).name, Head(top).value)
    /\ UNCHANGED fill

\* the loop of the innermost split is over: split returns, and so does the
\* upsert that called it
StepReturn ==
    /\ stack # << >>
    /\ stack[Len(stack)] = << >>
    /\ stack' = SubSeq(stack, 1, Len(stack) - 1)
    /\ UNCHANGED << table, bits, split_bucket, fill, last, track, panicked >>

NextSteps ==
    \/ StepCall
    \/ \E k \in ProbeKeys, v \in Values : StepProbe(k, v)
    \/ StepReinsert
    \/ StepReturn

\* a call in progress goes on: the program has one thread
SpecSteps ==
    Init /\ [][NextSteps]_vars /\ WF_vars(StepReinsert \/ StepReturn)

\* ----------------------------------------------------------------------
\* What the callers expect
\* ----------------------------------------------------------------------
\* the keys the callers use
AllKeys == ProbeKeys \cup { FillKeys[i] : i \in 0..(MaxFill - 1) }

\* the colliding keys upserted so far, and those not yet upserted
Filled == 0..(fill - 1)
Unfilled == fill..(MaxFill - 1)

\* the number of buckets
N == Len(table)

\* the entries of a bucket other than the one named k, in their order
Others(entries, k) ==
    LET Keep(e) == e.name # k
    IN  SelectSeq(entries, Keep)

\* the step is a call of remove (the table may be left as it was)
RemoveStep == \E k \in ProbeKeys : RemoveOp(k)

\* ----------------------------------------------------------------------
\* Properties
\* ----------------------------------------------------------------------

\* C1 (round trip): after upsert(k, v) has returned, also when it split,
\* lookup(k) returns Some(v).
C1_RoundTrip ==
    (last.op = "upsert" /\ ~panicked)
        => lookup(this, last.name) = last.value

\* C2 (splits are lookup-transparent): every key that was upserted and not
\* removed since is found by lookup, with the value upserted last.
C2_LookupTransparent ==
    ~panicked =>
        /\ \A i \in Filled : lookup(this, FillKeys[i]) = << i >>
        /\ \A k \in ProbeKeys :
               track[k].how = "upserted" => lookup(this, k) = track[k].val

\* C3 (overwrite): an upsert of k directly after an upsert of k returns
\* false, and lookup(k) then returns the second value.
C3_Overwrite ==
    (last.op = "upsert" /\ last.prev_op = "upsert"
        /\ last.prev_name = last.name /\ ~panicked)
        => /\ last.retb = FALSE
           /\ lookup(this, last.name) = last.value

\* C4 (no false positives): lookup returns None for a key never upserted
\* and for a key whose last call was a remove that returned a value,
\* whatever was upserted or split since.
C4_NoFalsePositive ==
    ~panicked =>
        /\ \A i \in Unfilled : lookup(this, FillKeys[i]) = << >>
        /\ \A k \in ProbeKeys :
               track[k].how \in { "never", "removed_some" }
                   => lookup(this, k) = << >>

\* C5 (deletion): after upsert(k, v) and then remove(k), lookup(k) returns
\* None and a second remove(k) returns None.
C5_Deletion ==
    (last.op = "remove" /\ last.prev_op = "upsert"
        /\ last.prev_name = last.name)
        => /\ ~panicked
           /\ lookup(this, last.name) = << >>
           /\ remove(this, last.name).ret = << >>
           /\ ~remove(this, last.name).panic

\* C5 witness: a remove directly after an upsert of the same key, which
\* returned the value
C5_Witness ==
    /\ last.op = "remove" /\ last.prev_op = "upsert"
    /\ last.prev_name = last.name
    /\ last.reto # << >>

\* C6 (bit depth): 2^(bits-1) < N <= 2^bits in every state.
C6_BitDepth == Pow2(bits - 1) < N /\ N <= Pow2(bits)

\* C7 (split pointer bounds): 0 <= split_bucket < N and
\* split_bucket < 2^(bits-1) in every state.
C7_SplitPointer ==
    /\ 0 <= split_bucket
    /\ split_bucket < N
    /\ split_bucket < Pow2(bits - 1)

\* C7 witness: splits have moved the pointer to the highest value it takes
\* in the round after the first increment of bits
C7_Witness == bits = InitBits + 1 /\ split_bucket = Pow2(bits - 1) - 2

\* C8 (remove changes one entry only): a remove(k) leaves the number of
\* buckets, bits and split_bucket as they were, makes no split, leaves in
\* every bucket the entries not named k in their order, takes away at most
\* one entry, and leaves lookup(k2) as it was for every other key k2.
C8_RemoveFrame ==
    [][ RemoveStep =>
          /\ Len(table') = Len(table)
          /\ bits' = bits
          /\ split_bucket' = split_bucket
          /\ last'.splits = 0
          /\ \A b \in 1..Len(table) :
                 /\ table'[b] = Others(table[b], last'.name)
                    \/ table'[b] = table[b]
                 /\ Len(table'[b]) >= Len(table[b]) - 1
                 /\ b # hash(this, last'.name) + 1 => table'[b] = table[b]
          /\ \A k2 \in AllKeys \ { last'.name } :
                 lookup(this', k2) = lookup(this, k2)
      ]_vars

\* C8 witness: remove took an entry that had at least two entries behind it
\* in its bucket
C8_Witness ==
    /\ last.op = "remove" /\ last.pos > 0
    /\ Len(Bucket(this, hash(this, last.name))) >= last.pos + 1

\* C9 (remove agrees with lookup): remove(k) returns what lookup(k)
\* returned right before it; when that is None the table, bits and
\* split_bucket stay as they were; neither call panics.
C9_RemoveAgrees ==
    [][ RemoveStep =>
          /\ ~IndexPanics(this, last'.name)
          /\ ~panicked'
          /\ last'.reto = lookup(this, last'.name)
          /\ lookup(this, last'.name) = << >>
                => UNCHANGED << table, bits, split_bucket >>
      ]_vars

\* C9 witness: a remove that returned a value, after splits
C9_Witness ==
    /\ last.op = "remove" /\ last.reto # << >> /\ N > NHASH + 2

\* C10 (addressing stays in range): for every masked hash m the bucket
\* index m, or m with its top bit flipped when m >= N, is in [0, N); this
\* holds in every state between calls and inside every split once bits and
\* split_bucket are updated, and no call indexes outside the table.
C10_AddressInRange ==
    /\ AddressesInRange(this)
    /\ last.addr_ok
    /\ ~panicked

\* C10 witness: a call has split more than once, and some masked hash is
\* folded
C10_Witness ==
    /\ last.splits > 1
    /\ \E m \in 0..(Pow2(bits) - 1) : m >= N

\* the step is a call of upsert that changed a variable
UpsertStep == last'.op = "upsert" /\ vars' # vars

\* n is a power of two
IsPow2(n) == \E k \in 0..30 : Pow2(k) = n

\* the events of the splits made by the last call
Events == { last.log[i] : i \in 1..Len(last.log) }

\* C11 as claimed (at most one split per caller-level upsert): no call
\* of upsert made more than one split.
C11_AtMostOneSplit == last.op = "upsert" => last.splits <= 1

\* C11 amended (one bucket per split): a caller-level upsert adds to the
\* table exactly as many buckets as it made splits, nested ones included,
\* and makes no split when it overwrites (returns false).
C11_OneBucketPerSplit ==
    [][ UpsertStep =>
          /\ Len(table') = Len(table) + last'.splits
          /\ last'.splits = Len(last'.log)
          /\ last'.retb = FALSE => last'.splits = 0
      ]_vars

\* C11 witness: one call of upsert made more than one split
C11_Witness == last.op = "upsert" /\ last.splits > 1 /\ ~panicked

\* C12 (bits grows only at the end of a round): every split either adds 1
\* to bits and resets split_bucket to 0, or leaves bits and adds 1 to
\* split_bucket; it does the first exactly when the bucket it pushed brings
\* N to a power of two, which is exactly when it took the last bucket of
\* the low half, 2^(bits-1) - 1; no two splits of a call take the same
\* bucket at the same bits.
C12_RoundComplete ==
    /\ \A e \in Events :
          /\ \/ e.bits_after = e.bits_before + 1 /\ e.sb_after = 0
             \/ e.bits_after = e.bits_before /\ e.sb_after = e.taken + 1
          /\ e.bits_after # e.bits_before <=> IsPow2(e.n_after)
          /\ e.bits_after # e.bits_before
                <=> e.taken = Pow2(e.bits_before - 1) - 1
    /\ \A i, j \in 1..Len(last.log) :
          (i # j /\ last.log[i].bits_before = last.log[j].bits_before)
              => last.log[i].taken # last.log[j].taken

\* C13 (split redistributes between two buckets): after a split every
\* entry of the bucket it took is in that bucket or in the bucket it
\* pushed, and every other bucket is as it was.
C13_TwoBuckets == \A e \in Events : e.moved_ok /\ e.frame_ok

\* C14 (entries are made by upsert and taken by remove only): an upsert
\* that returns true leaves the table with the entries it had and the new
\* one, one that returns false leaves their number, a remove that returns
\* a value leaves one less and one that returns None as many, and no split
\* changes the number of entries.
C14_EntriesConserved ==
    [][ /\ UpsertStep /\ last'.retb =>
              EntryBag(table') =
                  EntryBag([ table EXCEPT ![1] =
                      Append(@, [ name |-> last'.name,
                                  value |-> last'.value[1] ]) ])
        /\ UpsertStep /\ ~last'.retb =>
              EntryCount(table') = EntryCount(table)
        /\ UpsertStep => \A i \in 1..Len(last'.log) : last'.log[i].lost = 0
        /\ RemoveStep /\ last'.reto # << >> =>
              EntryCount(table') = EntryCount(table) - 1
        /\ RemoveStep /\ last'.reto = << >> =>
              EntryCount(table') = EntryCount(table)
      ]_vars

\* C15 as claimed (bucket lengths bounded by the threshold): no bucket
\* holds more than 2^bits + 1 entries, and a bucket taken by a split holds
\* at most 2^bits entries, bits as updated by that split.
C15_BoundedByThreshold ==
    /\ \A b \in 1..N : Len(table[b]) <= Pow2(bits) + 1
    /\ \A e \in Events : e.taken_len <= Pow2(e.bits_after)

\* C15 amended (bucket lengths bounded by threshold plus splits): no bucket
\* holds more than 2^bits + (N - NHASH) entries, N - NHASH being the number
\* of splits made since new().
C15_BoundedBySplits ==
    \A b \in 1..N : Len(table[b]) <= Pow2(bits) + (N - NHASH)

\* C15 witness: after a split of a bucket with more than 2^bits entries, a
\* bucket holds more than 2^bits + 1 entries
C15_Witness ==
    /\ \E b \in 1..N : Len(table[b]) > Pow2(bits) + 1
    /\ \E e \in Events : e.taken_len > Pow2(e.bits_after)

\* C16 (the update path changes one value only): an upsert whose key is
\* in the addressed bucket returns false, makes no split, and leaves the
\* table as it was but for the value of that entry, bits and split_bucket
\* as they were.
C16_UpdateFrame ==
    [][ UpsertStep =>
          LET h == hash(this, last'.name)
              i == FindFrom(Bucket(this, h), last'.name, 1)
          IN  i # 0 =>
                /\ last'.retb = FALSE
                /\ last'.splits = 0
                /\ last'.log = << >>
                /\ bits' = bits
                /\ split_bucket' = split_bucket
                /\ table' = [ table EXCEPT ![h + 1][i].value = last'.value[1] ]
      ]_vars

\* C16 witness: an upsert overwrote an entry of a bucket with more than
\* 2^bits entries
C16_Witness ==
    /\ last.op = "upsert" /\ ~last.retb /\ ~panicked
    /\ track[KeyAbc].how = "upserted"
    /\ Len(Bucket(this, hash(this, last.name))) > Pow2(bits)

\* C17 (split trigger): an upsert that appends makes a split exactly when
\* its bucket then holds more than 2^bits entries, and that split takes the
\* bucket at split_bucket; counting the upserts of re-insertion too, there
\* are as many splits as appends that left a bucket above 2^bits, and every
\* split was called by such an append.
C17_SplitTrigger ==
    [][ (UpsertStep /\ ~panicked') =>
          LET h == hash(this, last'.name)
              entries == Bucket(this, h)
          IN  /\ last'.splits = last'.overflows
              /\ \A i \in 1..Len(last'.log) :
                    last'.log[i].trigger_len > Pow2(last'.log[i].bits_before)
              /\ FindFrom(entries, last'.name, 1) = 0 =>
                    /\ last'.splits >= 1 <=> Len(entries) + 1 > Pow2(bits)
                    /\ last'.splits >= 1 =>
                          /\ last'.log[1].taken = split_bucket
                          /\ last'.log[1].trigger_bucket = h
                          /\ last'.log[1].trigger_len = Len(entries) + 1
      ]_vars

\* C17 witness: a split took another bucket than the one that overflowed
C17_Witness ==
    /\ last.op = "upsert" /\ last.splits >= 1 /\ ~panicked
    /\ last.log[1].taken # last.log[1].trigger_bucket

\* C18 (placement): every entry is in the bucket that hash gives for its
\* name, with the current bits and N.
C18_Placement ==
    ~panicked =>
        \A b \in 1..N : \A i \in 1..Len(table[b]) :
            hash(this, table[b][i].name) = b - 1

\* C19 (keys are unique in the table): no name is stored in two entries.
C19_UniqueKeys ==
    Cardinality({ table[p[1]][p[2]].name : p \in Positions(table) })
        = EntryCount(table)

\* C20 (termination): every call of upsert returns; whenever activations
\* of split are in progress, a state follows in which none is.
C20_Returns == (stack # << >>) ~> (stack = << >>)

\* C20 witness: a split called by the re-insertion of another split is in
\* progress, the colliding keys all in bucket 0 and more than 2^bits
C20_Witness ==
    /\ Len(stack) >= 2
    /\ Len(table[1]) > Pow2(bits)
    /\ \A j \in 1..Len(table[1]) : hash(this, table[1][j].name) = 0

\* ----------------------------------------------------------------------
\* Shapes
\* ----------------------------------------------------------------------
TypeOK ==
    /\ bits \in Nat
    /\ split_bucket \in Nat
    /\ fill \in 0..MaxFill
    /\ panicked \in BOOLEAN
    /\ \A b \in 1..Len(table) : \A i \in 1..Len(table[b]) :
           DOMAIN table[b][i] = { "name", "value" }
====
